---- MODULE Spec2Model ----
(***************************************************************************)
(* Anomaly detection engine of the energy data platform:                   *)
(*   services/anomaly_detection.py   detect (zscore, iqr, moving_average), *)
(*                                   mark_anomalies, get_anomaly_summary   *)
(*   api/v1/endpoints/analytics.py   reset_anomalies                       *)
(*   api/v1/endpoints/anomaly_status.py  update_anomaly_status             *)
(*   api/v1/endpoints/consumption.py create_consumption_reading            *)
(*                                                                         *)
(* Time is counted in hours.  Values are whole, non-negative kWh.          *)
(*                                                                         *)
(* The statistics are computed as NumPy computes them, in binary floating  *)
(* point with round-to-nearest-even after every operation; the significand *)
(* has MANT_DIG bits here where float64 has 53.                            *)
(***************************************************************************)
EXTENDS Integers, Sequences, FiniteSets, TLC

(* ------------------------------ bounds --------------------------------- *)
MaxNew == 1      \* readings created through the API in one behaviour
MaxTick == 1     \* hours the clock may advance
MaxExtra == 1    \* readings beyond MIN_READINGS in a series given to detect
MANT_DIG == 12   \* bits of a float's significand

(* ------------------------- program constants --------------------------- *)
MIN_READINGS == 10
THRESHOLD_NUM == 5          \* ANOMALY_DETECTION_THRESHOLD = 2.5 = 5/2
THRESHOLD_DEN == 2
DEFAULT_LOOKBACK_DAYS == 30
DEFAULT_WINDOW_HOURS == 24
DEFAULT_MULTIPLIER == 2
DEFAULT_SUMMARY_DAYS == 7
HOURS_PER_DAY == 24

(* --------------------------- request inputs ---------------------------- *)
Meters == {1, 2}                 \* rows of the meters table
MeterIds == {1, 2, 3}            \* meter ids a request may carry
Methods == {"zscore", "iqr", "moving_average"}
MethodArgs == Methods \cup {"invalid_method"}
valid_statuses == {"pending", "verified", "ignored"}
StatusArgs == {"verified", "ignored", "closed"}
CreateArgs == {<<1, 20>>}              \* <<timestamp, value_kwh>>
SummaryDays == {1, DEFAULT_SUMMARY_DAYS}
ThresholdArgs == {<<-1, 1>>, <<0, 1>>, <<1, 2>>, <<THRESHOLD_NUM, THRESHOLD_DEN>>}
WindowArgs == {3, MIN_READINGS}
\* 2867 fills the significand, as 0.7 does in float64
SeriesValues == {10, 12, 200, 2867}
SeriesBases == {10, 12, 2867}

(* ------------------------------ the store ------------------------------ *)
\* Each meter starts with just what its detection needs: what zscore and iqr
\* need for meter 1, what moving_average needs for meter 2.
Seed1 == MIN_READINGS
Seed2 == DEFAULT_WINDOW_HOURS
\* <<k, t>>: the meter's first k seeded readings are at 2 kWh, its last one at
\* t kWh, the others at 1 kWh; one pair for meter 1, one for meter 2
SeedPatterns == {<<<<0, 1>>, <<0, 1>>>>, <<<<0, 20>>, <<2, 20>>>>, <<<<3, 20>>, <<0, 20>>>>}

\* readings is the committed content of the consumption_readings table;
\* sessions holds what each open database session has done and not yet committed
VARIABLES readings, prev, now, last, sessions

vars == <<readings, prev, now, last, sessions>>

(* ------------------------------ scores --------------------------------- *)
\* anomaly_score: NULL, or the float m * 2^e
NoScore == [isNull |-> TRUE, m |-> 0, e |-> 0]

ScorePositive(s) == ~s.isNull /\ s.m > 0

Abs(x) == IF x < 0 THEN -x ELSE x

(* ------------------------------- floats -------------------------------- *)
\* A float is m * 2^e with 2^(MANT_DIG - 1) <= m < 2^MANT_DIG, or zero with
\* m = e = 0; no float here is negative.
\* the least L in lo..hi with x < 2^L
RECURSIVE BitLengthIn(_, _, _)
BitLengthIn(x, lo, hi) ==
    IF lo = hi THEN lo
    ELSE IF x < 2^((lo + hi) \div 2) THEN BitLengthIn(x, lo, (lo + hi) \div 2)
    ELSE BitLengthIn(x, (lo + hi) \div 2 + 1, hi)

bit_length(x) == BitLengthIn(x, 0, 31)

\* m * 2^e for m > 0 with the k low bits of m rounded away (k <= 0: none to
\* round), a tie going to the even significand
RoundTo(m, e, k) ==
    LET q == m \div 2^k
        r == m % 2^k
    IN IF k <= 0 THEN [m |-> m * 2^(-k), e |-> e + k]
       ELSE IF r < 2^(k - 1) \/ (r = 2^(k - 1) /\ q % 2 = 0) THEN [m |-> q, e |-> e + k]
       ELSE IF q + 1 = 2^MANT_DIG THEN [m |-> 2^(MANT_DIG - 1), e |-> e + k + 1]
       ELSE [m |-> q + 1, e |-> e + k]

\* the float nearest to m * 2^e
Round(m, e) ==
    IF m = 0 THEN [m |-> 0, e |-> 0] ELSE RoundTo(m, e, bit_length(m) - MANT_DIG)

FromInt(v) == Round(v, 0)

\* a + b
FAdd(a, b) ==
    IF a.m = 0 THEN b
    ELSE IF b.m = 0 THEN a
    ELSE IF a.e - b.e > MANT_DIG + 1 THEN a           \* b is below a's rounding position
    ELSE IF b.e - a.e > MANT_DIG + 1 THEN b
    ELSE LET hi == IF a.e >= b.e THEN a ELSE b
             lo == IF a.e >= b.e THEN b ELSE a
         IN Round(hi.m * 2^(hi.e - lo.e) + lo.m, lo.e)

\* |a - b|
FAbsDiff(a, b) ==
    IF a.m = 0 THEN b
    ELSE IF b.m = 0 THEN a
    ELSE IF a.e - b.e > MANT_DIG + 1 THEN a
    ELSE IF b.e - a.e > MANT_DIG + 1 THEN b
    ELSE LET hi == IF a.e >= b.e THEN a ELSE b
             lo == IF a.e >= b.e THEN b ELSE a
         IN Round(Abs(hi.m * 2^(hi.e - lo.e) - lo.m), lo.e)

FMul(a, b) == Round(a.m * b.m, a.e + b.e)

\* a / b for b > 0: the quotient to MANT_DIG + 2 bits or more, and a sticky
\* bit for the remainder
FDiv(a, b) ==
    LET num == a.m * 2^(MANT_DIG + 2)
        sticky == IF num % b.m = 0 THEN 0 ELSE 1
    IN Round(2 * (num \div b.m) + sticky, a.e - b.e - MANT_DIG - 3)

\* the largest s in lo..hi with s * s <= x
RECURSIVE ISqrt(_, _, _)
ISqrt(x, lo, hi) ==
    IF lo = hi THEN lo
    ELSE IF ((lo + hi + 1) \div 2) * ((lo + hi + 1) \div 2) <= x
    THEN ISqrt(x, (lo + hi + 1) \div 2, hi)
    ELSE ISqrt(x, lo, (lo + hi + 1) \div 2 - 1)

\* the root s of x = m * 2^k, doubled, and a sticky bit for the remainder
RootOf(x, s, e) == Round(2 * s + (IF s * s = x THEN 0 ELSE 1), e)

\* sqrt(a): the root to MANT_DIG + 1 bits or more, the exponent made even
FSqrt(a) ==
    LET k == IF (a.e - MANT_DIG) % 2 = 0 THEN MANT_DIG + 2 ELSE MANT_DIG + 3
        x == a.m * 2^k
    IN RootOf(x, ISqrt(x, 0, 2^(MANT_DIG + 2) - 1), (a.e - k) \div 2 - 1)

\* a > b
FGreater(a, b) ==
    IF a.m = 0 THEN FALSE
    ELSE IF b.m = 0 THEN TRUE
    ELSE IF a.e # b.e THEN a.e > b.e
    ELSE a.m > b.m

\* float(z) as an anomaly_score
FloatScore(z) == [isNull |-> FALSE, m |-> z.m, e |-> z.e]

(* --------------------------- sequence helpers -------------------------- *)
\* the elements of a sequence, each computed once
Array(s) == <<>> \o s

Slice(s, a, b) == Array([k \in 1..(b - a + 1) |-> s[a + k - 1]])

\* np.percentile sorts its input: the ascending rearrangement of s
Sorted(s) ==
    LET n == Len(s)
        below(v) == Cardinality({j \in 1..n : s[j] < v})
        upto(v) == Cardinality({j \in 1..n : s[j] <= v})
    IN [k \in 1..n |-> CHOOSE v \in {s[j] : j \in 1..n} : below(v) < k /\ k <= upto(v)]

(* ------------------------------ queries -------------------------------- *)
\* the detect query selecting only the readings not yet flagged
Query_unflagged(rs, m, cutoff) ==
    {i \in 1..Len(rs) : rs[i].meter_id = m /\ rs[i].timestamp >= cutoff /\ ~rs[i].is_anomaly}

\* filter(meter_id == m, timestamp >= cutoff)
Query(rs, m, cutoff) ==
    {i \in 1..Len(rs) : rs[i].meter_id = m /\ rs[i].timestamp >= cutoff}

\* .all(): the selected rows in primary-key order
ById(rs, S) == SelectSeq([i \in 1..Len(rs) |-> i], LAMBDA i : i \in S)

\* .order_by(timestamp).all(): ascending timestamp, equal timestamps in primary-key order
ByTimestamp(rs, S) ==
    LET before(x, y) == \/ rs[x].timestamp < rs[y].timestamp
                        \/ rs[x].timestamp = rs[y].timestamp /\ x < y
        rank == [y \in S |-> Cardinality({x \in S : before(x, y)}) + 1]
    IN [k \in 1..Cardinality(S) |-> CHOOSE y \in S : rank[y] = k]

Values(rs, ids) == [k \in 1..Len(ids) |-> rs[ids[k]].value_kwh]

(* -------------------------------- NumPy -------------------------------- *)
\* np.array([r.value_kwh for r in readings])
np_array(rs, ids) == Array([k \in 1..Len(ids) |-> FromInt(rs[ids[k]].value_kwh)])

\* res + a[i] + ... + a[n], added in this order
RECURSIVE SumInOrder(_, _, _, _)
SumInOrder(res, a, i, n) ==
    IF i > n THEN res ELSE SumInOrder(FAdd(res, a[i]), a, i + 1, n)

\* a[j] + a[j + 8] + ... over the first `blocks` blocks of eight
RECURSIVE Lane(_, _, _)
Lane(a, j, blocks) ==
    IF blocks = 1 THEN a[j]
    ELSE FAdd(Lane(a, j, blocks - 1), a[j + 8 * (blocks - 1)])

\* the eight running sums r, added pairwise
AddLanes(r) ==
    FAdd(FAdd(FAdd(r[1], r[2]), FAdd(r[3], r[4])),
         FAdd(FAdd(r[5], r[6]), FAdd(r[7], r[8])))

\* the largest array np.add.reduce sums without halving it
PW_BLOCKSIZE == 128

\* np.add.reduce of a float array: in order below eight elements; up to
\* PW_BLOCKSIZE elements, eight running sums over the whole blocks of eight,
\* added pairwise, then the remaining elements in order; a longer array is
\* cut near its middle, at a multiple of eight, and the two sums are added
RECURSIVE pairwise_sum(_)
pairwise_sum(a) ==
    LET n == Len(a)
        blocks == n \div 8
        n2 == (n \div 2) - ((n \div 2) % 8)
    IN IF n < 8 THEN SumInOrder(FromInt(0), a, 1, n)
       ELSE IF n <= PW_BLOCKSIZE
       THEN SumInOrder(AddLanes(Array([j \in 1..8 |-> Lane(a, j, blocks)])),
                       a, 8 * blocks + 1, n)
       ELSE FAdd(pairwise_sum(Slice(a, 1, n2)), pairwise_sum(Slice(a, n2 + 1, n)))

np_mean(a) == FDiv(pairwise_sum(a), FromInt(Len(a)))

\* x * x
Square(x) == FMul(x, x)

\* mean(|a - arrmean|^2)
np_var(a, arrmean) ==
    np_mean(Array([k \in 1..Len(a) |-> Square(FAbsDiff(a[k], arrmean))]))

\* sqrt(mean(|a - mean(a)|^2))
np_std(a) == FSqrt(np_var(a, np_mean(a)))

\* np.percentile(values, q) for q in {25, 75}: linear interpolation between
\* the two order statistics around index (n - 1) * q / 100
\* a + (b - a) * t for a <= b and t = gamma / 4, computed from b when t >= 0.5
lerp(a, b, gamma) ==
    IF gamma >= 2
    THEN FAbsDiff(b, FMul(FAbsDiff(b, a), Round(4 - gamma, -2)))
    ELSE FAdd(a, FMul(FAbsDiff(b, a), Round(gamma, -2)))

np_percentile(values, q) ==
    LET n == Len(values)
        pos == (q \div 25) * (n - 1)            \* the index, in quarters
        lo == pos \div 4
    IN lerp(FromInt(Sorted(values)[lo + 1]),
            FromInt(Sorted(values)[IF lo + 2 > n THEN n ELSE lo + 2]),
            pos % 4)

(* ----------------------------- detection ------------------------------- *)
\* the selected positions 1..n at which hit holds, in order
Hits(n, hit(_)) == SelectSeq([k \in 1..n |-> k], hit)

\* z_score > settings.ANOMALY_DETECTION_THRESHOLD, the instance's own
\* threshold ignored
ExceedsThreshold_default(z_score, tn, td) ==
    FGreater(z_score, FDiv(FromInt(THRESHOLD_NUM), FromInt(THRESHOLD_DEN)))

\* the comparison turned round: z_score < self.threshold
ExceedsThreshold_flipped(z_score, tn, td) ==
    IF tn < 0 THEN FALSE ELSE FGreater(FDiv(FromInt(tn), FromInt(td)), z_score)

\* z_score > self.threshold, the threshold being tn / td
ExceedsThreshold(z_score, tn, td) ==
    IF tn < 0 THEN TRUE ELSE FGreater(z_score, FDiv(FromInt(tn), FromInt(td)))

\* the loop of detect_anomalies_zscore over the z-scores
zscore_anomalies(ids, z_scores, tn, td) ==
    LET hits == Hits(Len(ids), LAMBDA k : ExceedsThreshold(z_scores[k], tn, td))
    IN [k \in 1..Len(hits) |-> <<ids[hits[k]], FloatScore(z_scores[hits[k]])>>]

\* detect_anomalies_zscore from the statistics on: the zero-variance return,
\* the z-scores and the loop
zscore_from_stats(ids, values, mean, std, tn, td) ==
    IF std.m = 0 THEN <<>>
    ELSE zscore_anomalies(ids,
                          Array([k \in 1..Len(ids) |-> FDiv(FAbsDiff(values[k], mean), std)]),
                          tn, td)

\* detect_anomalies_zscore with the minimum off by one (len(readings) < 9)
detect_anomalies_zscore_min9(rs, meter_id, nowv, lookback_days, tn, td) ==
    LET cutoff_date == nowv - lookback_days * HOURS_PER_DAY
        ids == ById(rs, Query(rs, meter_id, cutoff_date))
    IN IF Len(ids) < MIN_READINGS - 1 THEN <<>>
       ELSE zscore_from_stats(ids, np_array(rs, ids), np_mean(np_array(rs, ids)),
                              np_std(np_array(rs, ids)), tn, td)

detect_anomalies_zscore(rs, meter_id, nowv, lookback_days, tn, td) ==
    LET cutoff_date == nowv - lookback_days * HOURS_PER_DAY
        ids == ById(rs, Query(rs, meter_id, cutoff_date))
    IN IF Len(ids) < MIN_READINGS THEN <<>>
       ELSE zscore_from_stats(ids, np_array(rs, ids), np_mean(np_array(rs, ids)),
                              np_std(np_array(rs, ids)), tn, td)

\* the loop of detect_anomalies_iqr with a value on a bound counted as outside
iqr_anomalies_inclusive(ids, values, iqr, lower_negative, lower_bound, upper_bound) ==
    LET below(k) == ~lower_negative /\ ~FGreater(values[k], lower_bound)
        above(k) == ~FGreater(upper_bound, values[k])
        distance(k) == IF below(k) THEN FAbsDiff(lower_bound, values[k])
                       ELSE FAbsDiff(values[k], upper_bound)
        score(k) == IF iqr.m > 0 THEN FDiv(distance(k), iqr) ELSE FromInt(0)
        hits == Hits(Len(ids), LAMBDA k : below(k) \/ above(k))
    IN [k \in 1..Len(hits) |-> <<ids[hits[k]], FloatScore(score(hits[k]))>>]

\* the loop of detect_anomalies_iqr; lower_bound = q1 - 1.5 * iqr comes as a
\* sign and a magnitude
iqr_anomalies(ids, values, iqr, lower_negative, lower_bound, upper_bound) ==
    LET below(k) == ~lower_negative /\ FGreater(lower_bound, values[k])
        above(k) == FGreater(values[k], upper_bound)
        distance(k) == IF below(k) THEN FAbsDiff(lower_bound, values[k])
                       ELSE FAbsDiff(values[k], upper_bound)
        score(k) == IF iqr.m > 0 THEN FDiv(distance(k), iqr) ELSE FromInt(0)
        hits == Hits(Len(ids), LAMBDA k : below(k) \/ above(k))
    IN [k \in 1..Len(hits) |-> <<ids[hits[k]], FloatScore(score(hits[k]))>>]

\* detect_anomalies_iqr from the quartiles on: the bounds, with 1.5 * iqr
iqr_from_range(ids, values, q1, q3, iqr, whisker) ==
    iqr_anomalies(ids, values, iqr, FGreater(whisker, q1), FAbsDiff(q1, whisker),
                  FAdd(q3, whisker))

iqr_from_quartiles(ids, values, q1, q3) ==
    iqr_from_range(ids, values, q1, q3, FAbsDiff(q3, q1),
                   FMul(Round(3, -1), FAbsDiff(q3, q1)))

detect_anomalies_iqr(rs, meter_id, nowv, lookback_days) ==
    LET cutoff_date == nowv - lookback_days * HOURS_PER_DAY
        ids == ById(rs, Query(rs, meter_id, cutoff_date))
    IN IF Len(ids) < MIN_READINGS THEN <<>>
       ELSE iqr_from_quartiles(ids, np_array(rs, ids),
                               np_percentile(Values(rs, ids), 25),
                               np_percentile(Values(rs, ids), 75))

\* moving_avg at position p: the dot product of the window ending at p with
\* the kernel np.ones(window_hours) / window_hours, accumulated in order
RECURSIVE Convolve(_, _, _, _)
Convolve(values, kernel, p, j) ==
    IF j = 0 THEN FromInt(0)
    ELSE FAdd(Convolve(values, kernel, p - 1, j - 1), FMul(values[p], kernel))

\* the loop of detect_anomalies_moving_average: its k-th reading is at
\* position k + window_hours - 1 (from 1), index i = k + window_hours - 2 of
\* the code
moving_average_anomalies(ids, values, window_hours, threshold_multiplier, moving_avg, moving_std) ==
    LET p(k) == k + window_hours - 1
        deviation(k) == FAbsDiff(values[p(k)], moving_avg[k])
        threshold(k) == FMul(FromInt(threshold_multiplier), moving_std[k])
        hits == Hits(Len(ids) - window_hours + 1,
                     LAMBDA k : /\ FGreater(deviation(k), threshold(k))
                                /\ moving_std[k].m > 0)
    IN [k \in 1..Len(hits) |->
           <<ids[p(hits[k])], FloatScore(FDiv(deviation(hits[k]), moving_std[hits[k]]))>>]

\* detect_anomalies_moving_average from the selected values on: moving_avg
\* and moving_std at the positions of the loop
moving_average_from_values(ids, values, window_hours, threshold_multiplier) ==
    LET n == Len(ids)
        p(k) == k + window_hours - 1
        lo(k) == IF p(k) - window_hours > 1 THEN p(k) - window_hours ELSE 1
    IN moving_average_anomalies(
           ids, values, window_hours, threshold_multiplier,
           Array([k \in 1..(n - window_hours + 1) |->
                     Convolve(values, FDiv(FromInt(1), FromInt(window_hours)),
                              p(k), window_hours)]),
           Array([k \in 1..(n - window_hours + 1) |->
                     np_std(Slice(values, lo(k), p(k)))]))

detect_anomalies_moving_average(rs, meter_id, nowv, window_hours, threshold_multiplier) ==
    LET cutoff_date == nowv - window_hours * 2
        ids == ByTimestamp(rs, Query(rs, meter_id, cutoff_date))
    IN IF Len(ids) < window_hours THEN <<>>
       ELSE moving_average_from_values(ids, np_array(rs, ids), window_hours,
                                       threshold_multiplier)

\* the dispatch of mark_anomalies: each method with its default parameters
DetectDefault(rs, meter_id, method, nowv) ==
    IF method = "zscore"
    THEN detect_anomalies_zscore(rs, meter_id, nowv, DEFAULT_LOOKBACK_DAYS,
                                 THRESHOLD_NUM, THRESHOLD_DEN)
    ELSE IF method = "iqr"
    THEN detect_anomalies_iqr(rs, meter_id, nowv, DEFAULT_LOOKBACK_DAYS)
    ELSE detect_anomalies_moving_average(rs, meter_id, nowv, DEFAULT_WINDOW_HOURS,
                                         DEFAULT_MULTIPLIER)

(* ----------------------------- operations ------------------------------ *)
\* ApplyMarks with the score assignment forgotten
RECURSIVE ApplyMarks_no_score(_, _)
ApplyMarks_no_score(rs, anomalies) ==
    IF anomalies = <<>> THEN rs
    ELSE LET reading_id == Head(anomalies)[1]
             next == IF reading_id \in 1..Len(rs)
                     THEN [rs EXCEPT ![reading_id].is_anomaly = TRUE]
                     ELSE rs
         IN ApplyMarks_no_score(next, Tail(anomalies))

\* the loop of mark_anomalies over the (reading_id, score) pairs
RECURSIVE ApplyMarks(_, _)
ApplyMarks(rs, anomalies) ==
    IF anomalies = <<>> THEN rs
    ELSE LET reading_id == Head(anomalies)[1]
             score == Head(anomalies)[2]
             next == IF reading_id \in 1..Len(rs)
                     THEN [rs EXCEPT ![reading_id].is_anomaly = TRUE,
                                     ![reading_id].anomaly_score = score]
                     ELSE rs
         IN ApplyMarks(next, Tail(anomalies))

\* mark_anomalies replacing the meter's flagged set by the detected one
mark_anomalies_replace(rs, meter_id, method, nowv) ==
    IF method \in Methods
    THEN LET anomalies == DetectDefault(rs, meter_id, method, nowv)
             cleared == [i \in 1..Len(rs) |->
                            IF rs[i].meter_id = meter_id
                            THEN [rs[i] EXCEPT !.is_anomaly = FALSE, !.anomaly_score = NoScore]
                            ELSE rs[i]]
         IN [readings |-> ApplyMarks(cleared, anomalies), count |-> Len(anomalies),
             error |-> "none", queried |-> TRUE, committed |-> TRUE]
    ELSE [readings |-> rs, count |-> 0,
          error |-> "unknown_method", queried |-> FALSE, committed |-> FALSE]

\* mark_anomalies counting only the readings it newly flags
mark_anomalies_count_new(rs, meter_id, method, nowv) ==
    IF method \in Methods
    THEN LET anomalies == DetectDefault(rs, meter_id, method, nowv)
         IN [readings |-> ApplyMarks(rs, anomalies),
             count |-> Cardinality({k \in 1..Len(anomalies) :
                                       ~rs[anomalies[k][1]].is_anomaly}),
             error |-> "none", queried |-> TRUE, committed |-> TRUE]
    ELSE [readings |-> rs, count |-> 0,
          error |-> "unknown_method", queried |-> FALSE, committed |-> FALSE]

\* mark_anomalies with the final else falling back to zscore
mark_anomalies_fallback(rs, meter_id, method, nowv) ==
    LET anomalies == DetectDefault(rs, meter_id, IF method \in Methods THEN method
                                                 ELSE "zscore", nowv)
    IN [readings |-> ApplyMarks(rs, anomalies), count |-> Len(anomalies),
        error |-> "none", queried |-> TRUE, committed |-> TRUE]

\* AnomalyDetectionService.mark_anomalies
mark_anomalies(rs, meter_id, method, nowv) ==
    IF method \in Methods
    THEN LET anomalies == DetectDefault(rs, meter_id, method, nowv)
         IN [readings |-> ApplyMarks(rs, anomalies), count |-> Len(anomalies),
             error |-> "none", queried |-> TRUE, committed |-> TRUE]
    ELSE [readings |-> rs, count |-> 0,
          error |-> "unknown_method", queried |-> FALSE, committed |-> FALSE]

\* get_anomaly_summary with the timestamp filter missing from the second count
get_anomaly_summary_no_cutoff(rs, meter_id, days, nowv) ==
    LET cutoff_date == nowv - days * HOURS_PER_DAY
        total_readings == Cardinality(Query(rs, meter_id, cutoff_date))
        anomaly_count == Cardinality({i \in 1..Len(rs) :
                                         rs[i].meter_id = meter_id /\ rs[i].is_anomaly})
    IN [total_readings |-> total_readings, anomaly_count |-> anomaly_count,
        rate_num |-> IF total_readings > 0 THEN anomaly_count ELSE 0,
        rate_den |-> IF total_readings > 0 THEN total_readings ELSE 1]

\* AnomalyDetectionService.get_anomaly_summary; anomaly_rate = rate_num / rate_den
get_anomaly_summary(rs, meter_id, days, nowv) ==
    LET cutoff_date == nowv - days * HOURS_PER_DAY
        total_readings == Cardinality(Query(rs, meter_id, cutoff_date))
        anomaly_count == Cardinality({i \in Query(rs, meter_id, cutoff_date) :
                                         rs[i].is_anomaly})
    IN [total_readings |-> total_readings, anomaly_count |-> anomaly_count,
        rate_num |-> IF total_readings > 0 THEN anomaly_count ELSE 0,
        rate_den |-> IF total_readings > 0 THEN total_readings ELSE 1]

\* reset_anomalies with the meter_id filter left out of the update
reset_anomalies_all_meters(rs, meter_id) ==
    IF meter_id \notin Meters
    THEN [readings |-> rs, error |-> "404"]
    ELSE [readings |->
            [i \in 1..Len(rs) |->
                IF rs[i].is_anomaly
                THEN [rs[i] EXCEPT !.is_anomaly = FALSE, !.anomaly_score = NoScore]
                ELSE rs[i]],
          error |-> "none"]

\* reset_anomalies with the filter narrowed to anomaly_status == "pending"
reset_anomalies_pending_only(rs, meter_id) ==
    IF meter_id \notin Meters
    THEN [readings |-> rs, error |-> "404"]
    ELSE [readings |->
            [i \in 1..Len(rs) |->
                IF /\ rs[i].meter_id = meter_id /\ rs[i].is_anomaly
                   /\ rs[i].anomaly_status = "pending"
                THEN [rs[i] EXCEPT !.is_anomaly = FALSE, !.anomaly_score = NoScore]
                ELSE rs[i]],
          error |-> "none"]

\* reset_anomalies with "is_anomaly": False left out of the update
reset_anomalies_keep_flag(rs, meter_id) ==
    IF meter_id \notin Meters
    THEN [readings |-> rs, error |-> "404"]
    ELSE [readings |->
            [i \in 1..Len(rs) |->
                IF rs[i].meter_id = meter_id /\ rs[i].is_anomaly
                THEN [rs[i] EXCEPT !.anomaly_score = NoScore]
                ELSE rs[i]],
          error |-> "none"]

\* reset_anomalies with "anomaly_score": None left out of the update
reset_anomalies_keep_score(rs, meter_id) ==
    IF meter_id \notin Meters
    THEN [readings |-> rs, error |-> "404"]
    ELSE [readings |->
            [i \in 1..Len(rs) |->
                IF rs[i].meter_id = meter_id /\ rs[i].is_anomaly
                THEN [rs[i] EXCEPT !.is_anomaly = FALSE]
                ELSE rs[i]],
          error |-> "none"]

\* reset_anomalies (DELETE /anomalies/reset/{meter_id})
reset_anomalies(rs, meter_id) ==
    IF meter_id \notin Meters
    THEN [readings |-> rs, error |-> "404"]
    ELSE [readings |->
            [i \in 1..Len(rs) |->
                IF rs[i].meter_id = meter_id /\ rs[i].is_anomaly
                THEN [rs[i] EXCEPT !.is_anomaly = FALSE, !.anomaly_score = NoScore]
                ELSE rs[i]],
          error |-> "none"]

\* update_anomaly_status without its check of is_anomaly
update_anomaly_status_any_reading(rs, reading_id, status) ==
    IF status \notin valid_statuses
    THEN [readings |-> rs, error |-> "400_status", previous_status |-> "", new_status |-> ""]
    ELSE IF reading_id \notin 1..Len(rs)
    THEN [readings |-> rs, error |-> "404", previous_status |-> "", new_status |-> ""]
    ELSE [readings |-> [rs EXCEPT ![reading_id].anomaly_status = status],
          error |-> "none", previous_status |-> "pending", new_status |-> status]

\* update_anomaly_status without its check of the status value
update_anomaly_status_unchecked(rs, reading_id, status) ==
    IF reading_id \notin 1..Len(rs)
    THEN [readings |-> rs, error |-> "404", previous_status |-> "", new_status |-> ""]
    ELSE IF ~rs[reading_id].is_anomaly
    THEN [readings |-> rs, error |-> "400_not_anomaly", previous_status |-> "",
          new_status |-> ""]
    ELSE [readings |-> [rs EXCEPT ![reading_id].anomaly_status = status],
          error |-> "none", previous_status |-> "pending", new_status |-> status]

\* update_anomaly_status (PATCH /anomalies/{reading_id}/status)
update_anomaly_status(rs, reading_id, status) ==
    IF status \notin valid_statuses
    THEN [readings |-> rs, error |-> "400_status", previous_status |-> "", new_status |-> ""]
    ELSE IF reading_id \notin 1..Len(rs)
    THEN [readings |-> rs, error |-> "404", previous_status |-> "", new_status |-> ""]
    ELSE IF ~rs[reading_id].is_anomaly
    THEN [readings |-> rs, error |-> "400_not_anomaly", previous_status |-> "",
          new_status |-> ""]
    ELSE [readings |-> [rs EXCEPT ![reading_id].anomaly_status = status],
          error |-> "none", previous_status |-> "pending", new_status |-> status]

\* a row as the ConsumptionReading model inserts it: the column defaults
NewReading(meter_id, timestamp, value_kwh) ==
    [meter_id |-> meter_id, timestamp |-> timestamp, value_kwh |-> value_kwh,
     is_anomaly |-> FALSE, anomaly_score |-> NoScore, anomaly_status |-> "pending"]

\* create_consumption_reading storing the reading as an anomaly
create_consumption_reading_flagged(rs, meter_id, timestamp, value_kwh) ==
    IF meter_id \notin Meters
    THEN [readings |-> rs, error |-> "404"]
    ELSE [readings |-> Append(rs, [NewReading(meter_id, timestamp, value_kwh)
                                      EXCEPT !.is_anomaly = TRUE]),
          error |-> "none"]

\* create_consumption_reading (POST /readings)
create_consumption_reading(rs, meter_id, timestamp, value_kwh) ==
    IF meter_id \notin Meters
    THEN [readings |-> rs, error |-> "404"]
    ELSE [readings |-> Append(rs, NewReading(meter_id, timestamp, value_kwh)),
          error |-> "none"]

(* ----------------------------- the machine ----------------------------- *)
\* what the last request was and what it returned
NoOp == [op |-> "none", meter |-> 0, arg |-> "", id |-> 0, days |-> 0,
         count |-> 0, total |-> 0, rate_num |-> 0, rate_den |-> 1,
         error |-> "none", queried |-> FALSE, committed |-> FALSE,
         previous_status |-> "", param |-> <<0, 1>>, detected |-> <<>>]

\* the database sessions get_db can hand out at once
SessionIds == {1, 2}

\* a session with no request in it
IdleSession == [pc |-> "idle", op |-> "", meter |-> 0, method |-> "", anomalies |-> <<>>,
                snapshot |-> <<>>, loaded |-> <<>>, days |-> 0, total |-> 0, count |-> 0,
                error |-> "none"]

NoSessions == [s \in SessionIds |-> IdleSession]

\* meter 1: one reading on the 30-day cutoff, the others in the last hours;
\* meter 2: hourly readings from the 48-hour cutoff on
SeedTime1(j) == IF j = 1 THEN -(DEFAULT_LOOKBACK_DAYS * HOURS_PER_DAY) ELSE j - Seed1 - 1

SeedTime2(j) == j - 1 - 2 * DEFAULT_WINDOW_HOURS

SeedValue(p, j, n) == IF j = n THEN p[2] ELSE IF j <= p[1] THEN 2 ELSE 1

SeedStore(pat) ==
    [j \in 1..(Seed1 + Seed2) |->
        IF j <= Seed1
        THEN NewReading(1, SeedTime1(j), SeedValue(pat[1], j, Seed1))
        ELSE NewReading(2, SeedTime2(j - Seed1), SeedValue(pat[2], j - Seed1, Seed2))]

\* requests are served one at a time: no response is outstanding
Idle == last.op = "none"

\* reading ids a status request may carry: the first reading created through
\* the API, and one id that does not exist
StatusIds == {Seed1 + Seed2 + 1, Len(readings) + 1}

Init ==
    /\ \E pat \in SeedPatterns : readings = SeedStore(pat)
    /\ prev = readings
    /\ now = 0
    /\ last = NoOp
    /\ sessions = NoSessions

\* An action binds its handler's result once, as the one element of a set.
Create(m, a) ==
    /\ Len(readings) < Seed1 + Seed2 + MaxNew
    /\ Idle
    /\ \E r \in {create_consumption_reading(readings, m, a[1], a[2])} :
          /\ readings' = r.readings
          /\ last' = [NoOp EXCEPT !.op = "create", !.meter = m, !.error = r.error,
                                  !.id = IF r.error = "none" THEN Len(r.readings) ELSE 0,
                                  !.queried = TRUE, !.committed = r.error = "none"]
    /\ prev' = readings
    /\ UNCHANGED <<now, sessions>>

Mark(m, method) ==
    /\ Idle
    /\ \E r \in {mark_anomalies(readings, m, method, now)} :
          /\ readings' = r.readings
          /\ last' = [NoOp EXCEPT !.op = "mark", !.meter = m, !.arg = method,
                                  !.count = r.count, !.error = r.error,
                                  !.queried = r.queried, !.committed = r.committed]
    /\ prev' = readings
    /\ UNCHANGED <<now, sessions>>

Reset(m) ==
    /\ Idle
    /\ \E r \in {reset_anomalies(readings, m)} :
          /\ readings' = r.readings
          /\ last' = [NoOp EXCEPT !.op = "reset", !.meter = m, !.error = r.error,
                                  !.queried = TRUE, !.committed = r.error = "none"]
    /\ prev' = readings
    /\ UNCHANGED <<now, sessions>>

UpdateStatus(id, st) ==
    /\ Idle
    /\ \E r \in {update_anomaly_status(readings, id, st)} :
          /\ readings' = r.readings
          /\ last' = [NoOp EXCEPT !.op = "status", !.id = id, !.arg = st,
                                  !.error = r.error,
                                  !.previous_status = r.previous_status,
                                  !.queried = r.error # "400_status",
                                  !.committed = r.error = "none"]
    /\ prev' = readings
    /\ UNCHANGED <<now, sessions>>

Summary(m, days) ==
    /\ Idle
    /\ \E r \in {get_anomaly_summary(readings, m, days, now)} :
          last' = [NoOp EXCEPT !.op = "summary", !.meter = m, !.days = days,
                               !.total = r.total_readings, !.count = r.anomaly_count,
                               !.rate_num = r.rate_num, !.rate_den = r.rate_den,
                               !.queried = TRUE]
    /\ prev' = readings
    /\ UNCHANGED <<readings, now, sessions>>

DetectZScore(m, t) ==
    /\ Idle
    /\ last' = [NoOp EXCEPT !.op = "detect", !.meter = m, !.arg = "zscore",
                            !.queried = TRUE, !.param = t,
                            !.detected = detect_anomalies_zscore(
                                readings, m, now, DEFAULT_LOOKBACK_DAYS, t[1], t[2])]
    /\ prev' = readings
    /\ UNCHANGED <<readings, now, sessions>>

DetectIQR(m) ==
    /\ Idle
    /\ last' = [NoOp EXCEPT !.op = "detect", !.meter = m, !.arg = "iqr",
                            !.queried = TRUE,
                            !.detected = detect_anomalies_iqr(
                                readings, m, now, DEFAULT_LOOKBACK_DAYS)]
    /\ prev' = readings
    /\ UNCHANGED <<readings, now, sessions>>

DetectMovingAverage(m, w) ==
    /\ Idle
    /\ last' = [NoOp EXCEPT !.op = "detect", !.meter = m, !.arg = "moving_average",
                            !.queried = TRUE, !.param = <<w, 1>>,
                            !.detected = detect_anomalies_moving_average(
                                readings, m, now, w, DEFAULT_MULTIPLIER)]
    /\ prev' = readings
    /\ UNCHANGED <<readings, now, sessions>>

\* time passes between requests
Tick ==
    /\ Idle
    /\ now < MaxTick
    /\ now' = now + 1
    /\ UNCHANGED <<readings, prev, last, sessions>>

\* the response is delivered; the client may send its next request
Respond ==
    /\ ~Idle
    /\ last' = NoOp
    /\ prev' = readings
    /\ UNCHANGED <<readings, now, sessions>>

Next ==
    \/ \E m \in MeterIds, a \in CreateArgs : Create(m, a)
    \/ \E m \in Meters, method \in MethodArgs : Mark(m, method)
    \/ \E m \in MeterIds : Reset(m)
    \/ \E id \in StatusIds, st \in StatusArgs : UpdateStatus(id, st)
    \/ \E m \in Meters, days \in SummaryDays : Summary(m, days)
    \/ Tick
    \/ Respond

Spec == Init /\ [][Next]_vars

(* ------------------ detect on its own, over drawn series ---------------- *)
\* n hourly readings of meter 1 ending now: b kWh, the first k at 12 kWh,
\* and two positions i1, i2 carrying any of SeriesValues
Series(n, b, k, i1, a1, i2, a2) ==
    [j \in 1..n |->
        NewReading(1, j - n, IF j = i1 THEN a1
                             ELSE IF j = i2 THEN a2
                             ELSE IF j <= k THEN 12 ELSE b)]

\* the readings_with_anomalies fixture with its normal values levelled: seven
\* days of hourly readings of meter 1 ending now, 300 kWh at the anomaly
\* positions and 100 kWh elsewhere
FIXTURE_HOURS == 168

anomaly_positions == {24, 48, 72}

readings_with_anomalies ==
    [j \in 1..FIXTURE_HOURS |->
        NewReading(1, j - 1 - FIXTURE_HOURS,
                   IF j - 1 \in anomaly_positions THEN 300 ELSE 100)]

\* ten readings with Q1 = 10 and Q3 = 12: one value on the upper bound 15, one
\* above it
BoundaryValues == <<10, 10, 10, 10, 10, 12, 12, 12, 15, 16>>

BoundarySeries ==
    [j \in 1..Len(BoundaryValues) |->
        NewReading(1, j - Len(BoundaryValues), BoundaryValues[j])]

InitDetect ==
    /\ \/ \E n \in (MIN_READINGS - 1)..(MIN_READINGS + MaxExtra), b \in SeriesBases, k \in {0, 3} :
            \E i1 \in 1..n, i2 \in 1..n, a1 \in SeriesValues, a2 \in SeriesValues :
               readings = Series(n, b, k, i1, a1, i2, a2)
       \/ readings = readings_with_anomalies
       \/ readings = BoundarySeries
    /\ prev = readings
    /\ now = 0
    /\ last = NoOp
    /\ sessions = NoSessions

NextDetect ==
    \/ \E t \in ThresholdArgs : DetectZScore(1, t)
    \/ DetectIQR(1)
    \/ \E w \in WindowArgs : DetectMovingAverage(1, w)
    \/ Respond

SpecDetect == InitDetect /\ [][NextDetect]_vars

(* -------------- mark_anomalies in concurrent sessions ------------------- *)
\* db.commit() of a mark run: the flush writes, for each reading the run
\* assigned, the attributes whose assigned value differs from the value the
\* session loaded, onto the committed row; with the score left out of the flush
RECURSIVE Flush_no_score(_, _, _)
Flush_no_score(rs, loaded, anomalies) ==
    IF anomalies = <<>> THEN rs
    ELSE LET reading_id == Head(anomalies)[1]
             row == Head(loaded)
             next == [rs EXCEPT ![reading_id].is_anomaly =
                                    IF row.is_anomaly THEN @ ELSE TRUE]
         IN Flush_no_score(next, Tail(loaded), Tail(anomalies))

\* db.commit() of a mark run: the flush writes, for each reading the run
\* assigned, the attributes whose assigned value differs from the value the
\* session loaded, onto the committed row
RECURSIVE Flush(_, _, _)
Flush(rs, loaded, anomalies) ==
    IF anomalies = <<>> THEN rs
    ELSE LET reading_id == Head(anomalies)[1]
             score == Head(anomalies)[2]
             row == Head(loaded)
             next == [rs EXCEPT ![reading_id].is_anomaly =
                                    IF row.is_anomaly THEN @ ELSE TRUE,
                                ![reading_id].anomaly_score =
                                    IF row.anomaly_score = score THEN @ ELSE score]
         IN Flush(next, Tail(loaded), Tail(anomalies))

\* a session that sends every attribute assignment to the database at once
Uncommitted_autocommit(rs, loaded, assigned) == Flush(rs, loaded, assigned)

\* the table as other sessions see it while a session holds assigned,
\* uncommitted attribute changes: SessionLocal has autocommit=False and
\* autoflush=False, so nothing of them has reached the database
Uncommitted(rs, loaded, assigned) == rs

\* mark_anomalies up to its loop: the dispatch and the detect query
MarkDetect(s, m, method) ==
    /\ sessions[s].pc = "idle"
    /\ sessions' = [sessions EXCEPT ![s] =
          IF method \in Methods
          THEN [IdleSession EXCEPT !.pc = "assigning", !.op = "mark", !.meter = m,
                                   !.method = method,
                                   !.anomalies = DetectDefault(readings, m, method, now),
                                   !.snapshot = readings]
          ELSE [IdleSession EXCEPT !.pc = "failed", !.op = "mark", !.meter = m,
                                   !.method = method, !.error = "unknown_method"]]
    /\ UNCHANGED <<readings, prev, now, last>>

\* one turn of the loop: query.get returns the row from the session's identity
\* map if the detect query's object is still alive, and selects it otherwise;
\* the two attributes are assigned on the session's object
MarkAssign(s) ==
    /\ sessions[s].pc = "assigning"
    /\ Len(sessions[s].loaded) < Len(sessions[s].anomalies)
    /\ \E ses \in {sessions[s]} :
          \E reading_id \in {ses.anomalies[Len(ses.loaded) + 1][1]} :
             \E row \in {ses.snapshot[reading_id], readings[reading_id]} :
                /\ sessions' = [sessions EXCEPT ![s].loaded = Append(ses.loaded, row)]
                /\ readings' = Uncommitted(readings, Append(ses.loaded, row),
                                           SubSeq(ses.anomalies, 1, Len(ses.loaded) + 1))
    /\ UNCHANGED <<prev, now, last>>

\* db.commit() after the loop, and the return of len(anomalies)
MarkCommit(s) ==
    /\ sessions[s].pc = "assigning"
    /\ Len(sessions[s].loaded) = Len(sessions[s].anomalies)
    /\ readings' = Flush(readings, sessions[s].loaded, sessions[s].anomalies)
    /\ sessions' = [sessions EXCEPT ![s].pc = "committed", ![s].snapshot = <<>>,
                                    ![s].count = Len(sessions[s].anomalies)]
    /\ UNCHANGED <<prev, now, last>>

\* the run ends on an exception before its commit; get_db closes the session,
\* which discards what it held
MarkFail(s) ==
    /\ sessions[s].pc = "assigning"
    /\ sessions' = [sessions EXCEPT ![s].pc = "failed", ![s].snapshot = <<>>,
                                    ![s].error = "exception"]
    /\ UNCHANGED <<readings, prev, now, last>>

\* each session serves one mark request; the table it starts from is a seeded
\* one, or a seeded one an earlier mark request has been served on
InitMarks ==
    /\ \E pat \in SeedPatterns :
          \/ readings = SeedStore(pat)
          \/ \E m \in Meters, method \in Methods :
                readings = mark_anomalies(SeedStore(pat), m, method, 0).readings
    /\ prev = readings
    /\ now = 0
    /\ last = NoOp
    /\ sessions = NoSessions

NextMarks ==
    \/ \E s \in SessionIds, m \in Meters, method \in MethodArgs : MarkDetect(s, m, method)
    \/ \E s \in SessionIds : MarkAssign(s)
    \/ \E s \in SessionIds : MarkCommit(s)
    \/ \E s \in SessionIds : MarkFail(s)

SpecMarks == InitMarks /\ [][NextMarks]_vars

(* ---------------- detect over stores that carry flags ------------------- *)
\* a reading with its anomaly fields as at insertion
Unmarked(rs) ==
    [i \in 1..Len(rs) |-> NewReading(rs[i].meter_id, rs[i].timestamp, rs[i].value_kwh)]

\* the table after status updates have set every flagged reading to st
WithStatus(rs, st) ==
    [i \in 1..Len(rs) |-> IF rs[i].is_anomaly THEN [rs[i] EXCEPT !.anomaly_status = st]
                          ELSE rs[i]]

\* a seeded table, as it is or after a mark request and status updates
InitDetectMarked ==
    /\ \E pat \in SeedPatterns, st \in valid_statuses :
          \/ readings = SeedStore(pat)
          \/ \E m \in Meters, method \in Methods :
                readings = WithStatus(mark_anomalies(SeedStore(pat), m, method, 0).readings, st)
    /\ prev = readings
    /\ now = 0
    /\ last = NoOp
    /\ sessions = NoSessions

NextDetectMarked ==
    \/ \E m \in Meters, t \in ThresholdArgs : DetectZScore(m, t)
    \/ \E m \in Meters : DetectIQR(m)
    \/ \E m \in Meters, w \in WindowArgs \cup {DEFAULT_WINDOW_HOURS} : DetectMovingAverage(m, w)
    \/ Respond

SpecDetectMarked == InitDetectMarked /\ [][NextDetectMarked]_vars

\* the detect call a detect request makes
DetectAs(rs, meter_id, method, param, nowv) ==
    IF method = "zscore"
    THEN detect_anomalies_zscore(rs, meter_id, nowv, DEFAULT_LOOKBACK_DAYS, param[1], param[2])
    ELSE IF method = "iqr"
    THEN detect_anomalies_iqr(rs, meter_id, nowv, DEFAULT_LOOKBACK_DAYS)
    ELSE detect_anomalies_moving_average(rs, meter_id, nowv, param[1], DEFAULT_MULTIPLIER)

(* ------------- mark and reset in concurrent sessions -------------------- *)
\* reset_anomalies in its own session: the bulk UPDATE runs in the database on
\* the committed rows and is committed by the next statement
ResetCommit(s, m) ==
    /\ sessions[s].pc = "idle"
    /\ \E r \in {reset_anomalies(readings, m)} :
          /\ readings' = r.readings
          /\ sessions' = [sessions EXCEPT ![s] =
                [IdleSession EXCEPT !.pc = IF r.error = "none" THEN "committed" ELSE "failed",
                                    !.op = "reset", !.meter = m, !.error = r.error]]
    /\ UNCHANGED <<prev, now, last>>

\* each session serves one request, a mark or a reset
NextMarkReset ==
    \/ \E s \in SessionIds, m \in Meters, method \in MethodArgs : MarkDetect(s, m, method)
    \/ \E s \in SessionIds : MarkAssign(s)
    \/ \E s \in SessionIds : MarkCommit(s)
    \/ \E s \in SessionIds : MarkFail(s)
    \/ \E s \in SessionIds, m \in MeterIds : ResetCommit(s, m)

SpecMarkReset == InitMarks /\ [][NextMarkReset]_vars

(* ----------- summary while other requests are being served -------------- *)
\* the first count query of get_anomaly_summary: each statement reads the rows
\* committed when it runs
SummaryCountTotal(s, m, days) ==
    /\ sessions[s].pc = "idle"
    /\ sessions' = [sessions EXCEPT ![s] =
          [IdleSession EXCEPT !.pc = "counting", !.op = "summary", !.meter = m,
                              !.days = days,
                              !.total = Cardinality(Query(readings, m,
                                                          now - days * HOURS_PER_DAY))]]
    /\ UNCHANGED <<readings, prev, now, last>>

\* the second count query, and the return of the two counts
SummaryCountAnomalies(s) ==
    /\ sessions[s].pc = "counting"
    /\ sessions' = [sessions EXCEPT
          ![s].pc = "returned",
          ![s].count = Cardinality({i \in Query(readings, sessions[s].meter,
                                                now - sessions[s].days * HOURS_PER_DAY) :
                                       readings[i].is_anomaly})]
    /\ UNCHANGED <<readings, prev, now, last>>

\* one session serves a summary while the requests of another client are
\* served one at a time
NextSummary ==
    \/ \E m \in Meters, days \in SummaryDays : SummaryCountTotal(1, m, days)
    \/ SummaryCountAnomalies(1)
    \/ \E m \in MeterIds, a \in CreateArgs : Create(m, a)
    \/ \E m \in Meters, method \in MethodArgs : Mark(m, method)
    \/ Respond

SpecSummary == Init /\ [][NextSummary]_vars

(* ------------------------------- claims -------------------------------- *)
FlaggedOf(rs, m) == {i \in 1..Len(rs) : rs[i].meter_id = m /\ rs[i].is_anomaly}

\* C1: after any sequence of reading creations, marks, resets and status
\* updates, every reading has a non-null anomaly_score exactly when its
\* is_anomaly is true.
C1_ScoreIffAnomaly ==
    \A i \in 1..Len(readings) :
        readings[i].is_anomaly <=> ~readings[i].anomaly_score.isNull

\* a reset has just cleared one meter while a reading of the other meter stays flagged
C1_Witness ==
    /\ last.op = "reset" /\ last.error = "none"
    /\ \E i \in 1..Len(readings) : prev[i].is_anomaly /\ ~readings[i].is_anomaly
    /\ \E i \in 1..Len(readings) : readings[i].is_anomaly

C3_UnknownMethod ==
    (last.op = "mark" /\ last.arg \notin Methods) =>
        /\ last.error = "unknown_method"
        /\ ~last.queried /\ ~last.committed
        /\ readings = prev

\* an unknown method was refused on a store where zscore would have flagged readings
C3_Witness ==
    /\ last.op = "mark" /\ last.error = "unknown_method"
    /\ DetectDefault(readings, last.meter, "zscore", now) # <<>>

\* C4: mark(meter, method) flags every (reading_id, score) pair detect returns
\* for that method with that score and returns the number of pairs; when no
\* reading of the meter was flagged before, the number of flagged readings of
\* the meter afterwards equals the returned count.
C4_MarkAppliesDetect ==
    (last.op = "mark" /\ last.error = "none") =>
        \A d \in {DetectDefault(prev, last.meter, last.arg, now)} :
           /\ last.count = Len(d)
           /\ \A k \in 1..Len(d) :
                /\ readings[d[k][1]].is_anomaly
                /\ readings[d[k][1]].anomaly_score = d[k][2]
           /\ FlaggedOf(prev, last.meter) = {} =>
                Cardinality(FlaggedOf(readings, last.meter)) = last.count

\* a mark that flagged readings of a meter that had none flagged
C4_Witness ==
    /\ last.op = "mark" /\ last.count > 0
    /\ FlaggedOf(prev, last.meter) = {}
    /\ Cardinality(FlaggedOf(readings, last.meter)) = last.count

\* C5: whenever a mark run turns a reading from is_anomaly = false to
\* is_anomaly = true, the reading's anomaly_status is pending after the run,
\* also for a reading flagged before, set to verified or ignored, and cleared
\* by a reset.
C5_NewlyFlaggedPending ==
    (last.op = "mark" /\ last.error = "none") =>
        \A i \in 1..Len(readings) :
            (~prev[i].is_anomaly /\ readings[i].is_anomaly) =>
                readings[i].anomaly_status = "pending"

\* C6: a reset of a meter immediately followed by a summary of that meter,
\* for any days value, reports anomaly_count = 0.
C6_ResetThenSummary ==
    (last.op = "reset" /\ last.error = "none") =>
        \A days \in SummaryDays :
            get_anomaly_summary(readings, last.meter, days, now).anomaly_count = 0

\* a reset of a meter whose summary counted anomalies before it
C6_Witness ==
    /\ last.op = "reset" /\ last.error = "none"
    /\ \E days \in SummaryDays :
         get_anomaly_summary(prev, last.meter, days, now).anomaly_count > 0

\* C7: summary returns 0 <= anomaly_count <= total_readings, so
\* 0 <= anomaly_rate <= 1, and anomaly_rate = 0 when total_readings = 0.
C7_SummaryBounds ==
    last.op = "summary" =>
        /\ 0 <= last.count /\ last.count <= last.total
        /\ last.rate_den > 0
        /\ 0 <= last.rate_num /\ last.rate_num <= last.rate_den
        /\ last.total = 0 => last.rate_num = 0

\* a summary over a window that holds no reading of a meter that has flagged readings
C7_Witness ==
    /\ last.op = "summary" /\ last.total = 0 /\ last.rate_num = 0
    /\ FlaggedOf(readings, last.meter) # {}

InLookback(rs, m, nowv) ==
    Query(rs, m, nowv - DEFAULT_LOOKBACK_DAYS * HOURS_PER_DAY)

InWindow(rs, m, nowv, w) == Query(rs, m, nowv - w * 2)

\* the method's default detection has too few readings to proceed
Insufficient(rs, m, method, nowv) ==
    IF method = "moving_average"
    THEN Cardinality(InWindow(rs, m, nowv, DEFAULT_WINDOW_HOURS)) < DEFAULT_WINDOW_HOURS
    ELSE Cardinality(InLookback(rs, m, nowv)) < MIN_READINGS

\* C8: insufficient data is not an error. With fewer than 10 readings of the
\* meter in the lookback window, detect with zscore and with iqr returns an
\* empty list whatever the values; detect with moving_average returns an empty
\* list when fewer than window_hours readings are in its window; mark then
\* returns 0 and changes no reading.
C8_InsufficientData ==
    /\ Idle =>
         \A m \in Meters :
            /\ Cardinality(InLookback(readings, m, now)) < MIN_READINGS =>
                 /\ \A t \in ThresholdArgs :
                       detect_anomalies_zscore(readings, m, now, DEFAULT_LOOKBACK_DAYS,
                                               t[1], t[2]) = <<>>
                 /\ detect_anomalies_iqr(readings, m, now, DEFAULT_LOOKBACK_DAYS) = <<>>
            /\ \A w \in WindowArgs \cup {DEFAULT_WINDOW_HOURS} :
                 Cardinality(InWindow(readings, m, now, w)) < w =>
                    detect_anomalies_moving_average(readings, m, now, w,
                                                    DEFAULT_MULTIPLIER) = <<>>
    /\ (last.op = "mark" /\ last.error = "none"
            /\ Insufficient(prev, last.meter, last.arg, now)) =>
         /\ last.count = 0
         /\ readings = prev

\* a zscore mark returned 0 on nine readings in range, one of them an outlier
C8_Witness ==
    /\ last.op = "mark" /\ last.arg = "zscore" /\ last.count = 0
    /\ Cardinality(InLookback(prev, last.meter, now)) = MIN_READINGS - 1
    /\ \E i \in InLookback(prev, last.meter, now) : prev[i].value_kwh = 20

\* the values detect with zscore or iqr selects for meter m
LookbackValues(rs, m, nowv) == Values(rs, ById(rs, InLookback(rs, m, nowv)))

\* C9: for 10 or more readings whose values are all identical (zero
\* variance), detect with zscore returns an empty list, for every threshold.
C9_ZeroVariance ==
    (last.op = "detect" /\ last.arg = "zscore") =>
        \A values \in {LookbackValues(prev, last.meter, now)} :
           (Len(values) >= MIN_READINGS /\ \A k \in 1..Len(values) : values[k] = values[1])
              => last.detected = <<>>

\* C10: a degenerate IQR means no anomalies are possible: for 10 or more
\* readings whose Q1 equals Q3 (IQR = 0), detect with iqr flags no reading;
\* an isolated 200 among readings that are otherwise all 10 is not flagged.
C10_ZeroIQRFlagsNothing ==
    (last.op = "detect" /\ last.arg = "iqr") =>
        \A values \in {LookbackValues(prev, last.meter, now)} :
           (/\ Len(values) >= MIN_READINGS
            /\ np_percentile(values, 25) = np_percentile(values, 75))
              => last.detected = <<>>

\* the ids of the returned (reading_id, score) pairs
DetectedIds(d) == {d[j][1] : j \in 1..Len(d)}

\* C11: z-score detection over at least 10 readings that are not all equal
\* (population standard deviation > 0): a reading is returned if and only if
\* |value - mean| / sigma > threshold, mean and sigma taken over all selected
\* readings; its score is that quotient, so every returned score is strictly
\* greater than the threshold; in the series of 165 readings at 100 and 3
\* readings at 300 the 3 outliers are flagged at the default threshold.
C11_ZScoreRule ==
    (last.op = "detect" /\ last.arg = "zscore") =>
        \A ids \in {ById(prev, InLookback(prev, last.meter, now))} :
        \A values \in {np_array(prev, ids)} :
        \A mean \in {np_mean(values)}, sigma \in {np_std(values)} :
        \A threshold \in {FDiv(FromInt(Abs(last.param[1])), FromInt(last.param[2]))} :
           (/\ Len(ids) >= MIN_READINGS
            /\ \E k \in 1..Len(ids) : values[k] # values[1]) =>
              /\ \A k \in 1..Len(ids) :
                    (\/ last.param[1] < 0
                     \/ FGreater(FDiv(FAbsDiff(values[k], mean), sigma), threshold))
                       <=> ids[k] \in DetectedIds(last.detected)
              /\ \A j \in 1..Len(last.detected) :
                    /\ \E k \in 1..Len(ids) :
                          last.detected[j] =
                             <<ids[k], FloatScore(FDiv(FAbsDiff(values[k], mean), sigma))>>
                    /\ \/ last.param[1] < 0
                       \/ FGreater(last.detected[j][2], threshold)
              /\ (prev = readings_with_anomalies
                      /\ last.param = <<THRESHOLD_NUM, THRESHOLD_DEN>>) =>
                    \A h \in anomaly_positions : h + 1 \in DetectedIds(last.detected)

\* the three outliers of the fixture series, and no other reading, returned
\* at the default threshold
C11_Witness ==
    /\ last.op = "detect" /\ last.arg = "zscore"
    /\ last.param = <<THRESHOLD_NUM, THRESHOLD_DEN>>
    /\ prev = readings_with_anomalies
    /\ DetectedIds(last.detected) = {h + 1 : h \in anomaly_positions}

\* four times the linearly interpolated q-th percentile (q in {25, 75}) of
\* whole values in ascending order: the index (n - 1) * q / 100 is lo + g / 4
Quartile4(sorted, q) ==
    LET n == Len(sorted)
        pos == (q \div 25) * (n - 1)
        lo == pos \div 4
        a == sorted[lo + 1]
        b == sorted[IF lo + 2 > n THEN n ELSE lo + 2]
    IN 4 * a + (b - a) * (pos % 4)

\* every quantity of the IQR rule on these values is a float without rounding
IQRExact(values) == \A k \in 1..Len(values) : 20 * values[k] < 2^MANT_DIG

\* C12: IQR detection over at least 10 readings, with Q1 and Q3 the linearly
\* interpolated 25th and 75th percentiles of the selected values and
\* IQR = Q3 - Q1: a reading is returned if and only if its value is strictly
\* below Q1 - 1.5 * IQR or strictly above Q3 + 1.5 * IQR, a value exactly on a
\* bound is not returned, and the score is the distance past the nearer bound
\* divided by IQR.  The bounds are taken eightfold, in whole numbers:
\* 8 * lower = 5 * 4Q1 - 3 * 4Q3 and 8 * upper = 5 * 4Q3 - 3 * 4Q1.
C12_IQRRule ==
    (last.op = "detect" /\ last.arg = "iqr") =>
        \A ids \in {ById(prev, InLookback(prev, last.meter, now))} :
        \A Q1 \in {Quartile4(Sorted(Values(prev, ids)), 25)},
           Q3 \in {Quartile4(Sorted(Values(prev, ids)), 75)} :
           (Len(ids) >= MIN_READINGS /\ IQRExact(Values(prev, ids))) =>
              /\ \A k \in 1..Len(ids) :
                    (\/ 8 * prev[ids[k]].value_kwh < 5 * Q1 - 3 * Q3
                     \/ 8 * prev[ids[k]].value_kwh > 5 * Q3 - 3 * Q1)
                       <=> ids[k] \in DetectedIds(last.detected)
              /\ \A j \in 1..Len(last.detected) :
                    \A v \in {prev[last.detected[j][1]].value_kwh} :
                       Q3 > Q1 =>
                          last.detected[j][2] =
                             FloatScore(FDiv(
                                Round(IF 8 * v > 5 * Q3 - 3 * Q1
                                      THEN 8 * v - (5 * Q3 - 3 * Q1)
                                      ELSE (5 * Q1 - 3 * Q3) - 8 * v, -3),
                                Round(Q3 - Q1, -2)))

\* a reading above the upper bound returned with its score 0.5 while the
\* reading exactly on the bound is not
C12_Witness ==
    /\ last.op = "detect" /\ last.arg = "iqr"
    /\ prev = BoundarySeries
    /\ last.detected = <<<<10, FloatScore(Round(1, -1))>>>>

\* the sum of the whole values s[a..b], and of their squares
RECURSIVE SumOf(_, _, _)
SumOf(s, a, b) == IF a > b THEN 0 ELSE s[a] + SumOf(s, a + 1, b)

RECURSIVE SumSqOf(_, _, _)
SumSqOf(s, a, b) == IF a > b THEN 0 ELSE s[a] * s[a] + SumSqOf(s, a + 1, b)

\* the squares compared below stay within 32 bits
MAInRange(values, w) ==
    \A k \in 1..Len(values) : w * (w + 1) * values[k] < 2^15 + 2^13

\* |value - moving_average| > multiplier * trailing_std and trailing_std > 0 at
\* position p (from 1) of whole values, in whole numbers: with S the sum of
\* the w values ending at p, and n, T, Q the length, the sum and the sum of
\* squares of the trailing window values[max(1, p - w)..p],
\*   (w * value - S)^2 * n^2 > multiplier^2 * w^2 * (n * Q - T^2)  and
\*   n * Q - T^2 > 0
MovingAverageRule(values, w, multiplier, p) ==
    LET from == IF p - w > 1 THEN p - w ELSE 1
        n == p - from + 1
        S == SumOf(values, p - w + 1, p)
        var == n * SumSqOf(values, from, p) - SumOf(values, from, p) * SumOf(values, from, p)
    IN /\ (w * values[p] - S) * (w * values[p] - S) * n * n
             > multiplier * multiplier * w * w * var
       /\ var > 0

\* C13: moving-average detection over readings ordered by ascending
\* timestamp: the first window_hours - 1 readings are never returned; a
\* reading at a later position i is returned if and only if
\* |value_i - moving_average_i| > multiplier * trailing_std_i and
\* trailing_std_i > 0, where moving_average_i is the mean of the window_hours
\* consecutive values ending at i.
C13_MovingAverageRule ==
    (last.op = "detect" /\ last.arg = "moving_average") =>
        \A w \in {last.param[1]} :
        \A ids \in {ByTimestamp(prev, InWindow(prev, last.meter, now, w))} :
           (Len(ids) >= w /\ MAInRange(Values(prev, ids), w)) =>
              \A p \in 1..Len(ids) :
                 ids[p] \in DetectedIds(last.detected)
                    <=> /\ p >= w
                        /\ MovingAverageRule(Values(prev, ids), w, DEFAULT_MULTIPLIER, p)

\* C14: every (reading_id, score) pair detect returns, for each of the three
\* methods and every input, has a strictly positive score, so every reading
\* flagged by mark has anomaly_score > 0.
C14_PositiveScores ==
    /\ Idle =>
          \A m \in Meters, method \in Methods :
             \A d \in {DetectDefault(readings, m, method, now)} :
                \A k \in 1..Len(d) : ScorePositive(d[k][2])
    /\ \A i \in 1..Len(readings) :
          readings[i].is_anomaly => ScorePositive(readings[i].anomaly_score)

\* t1 <= t2 for thresholds given as <<numerator, denominator>>
ThresholdLeq(t1, t2) == t1[1] * t2[2] <= t2[1] * t1[2]

\* C15: raising the threshold never adds detections: for the same readings
\* and thresholds t1 <= t2, the ids detect returns with zscore at threshold t2
\* are a subset of the ids it returns at threshold t1.
C15_ThresholdMonotone ==
    (last.op = "detect" /\ last.arg = "zscore") =>
        \A t1 \in ThresholdArgs :
           ThresholdLeq(t1, last.param) =>
              DetectedIds(last.detected) \subseteq
                 DetectedIds(detect_anomalies_zscore(prev, last.meter, now,
                                                     DEFAULT_LOOKBACK_DAYS, t1[1], t1[2]))

\* the default threshold returns some readings, and fewer than a lower one
C15_Witness ==
    /\ last.op = "detect" /\ last.arg = "zscore"
    /\ last.param = <<THRESHOLD_NUM, THRESHOLD_DEN>>
    /\ last.detected # <<>>
    /\ \E t1 \in ThresholdArgs :
          /\ ThresholdLeq(t1, last.param)
          /\ Len(detect_anomalies_zscore(prev, last.meter, now,
                                         DEFAULT_LOOKBACK_DAYS, t1[1], t1[2]))
                > Len(last.detected)

\* C16: reset(meter) leaves every reading of that meter with is_anomaly =
\* false and anomaly_score = null, whatever their timestamps, and is
\* idempotent: a second reset, or a reset of a meter with no flagged reading,
\* changes no reading.
C16_ResetClearsIdempotent ==
    last.op = "reset" =>
        /\ last.error = "none" =>
              \A i \in 1..Len(readings) :
                 readings[i].meter_id = last.meter =>
                    ~readings[i].is_anomaly /\ readings[i].anomaly_score.isNull
        /\ reset_anomalies(readings, last.meter).readings = readings
        /\ FlaggedOf(prev, last.meter) = {} => readings = prev

\* a reset that found flagged readings, one of them more than a day old, and
\* left the meter clean
C16_Witness ==
    /\ last.op = "reset" /\ last.error = "none"
    /\ \E i \in FlaggedOf(prev, last.meter) :
          prev[i].timestamp < now - HOURS_PER_DAY
    /\ FlaggedOf(readings, last.meter) = {}

\* C17: frame of mark and reset: mark(m, method) and reset(m) never change
\* the id, meter_id, timestamp or value of any reading, and never change any
\* field of a reading that belongs to a meter other than m.  A reading's id
\* is its position in the table.
C17_MarkResetFrame ==
    last.op \in {"mark", "reset"} =>
        /\ Len(readings) = Len(prev)
        /\ \A i \in 1..Len(prev) :
              /\ readings[i].meter_id = prev[i].meter_id
              /\ readings[i].timestamp = prev[i].timestamp
              /\ readings[i].value_kwh = prev[i].value_kwh
              /\ prev[i].meter_id # last.meter => readings[i] = prev[i]

\* a mark or a reset changed readings of its meter while the other meter
\* holds flagged readings
C17_Witness ==
    /\ last.op \in {"mark", "reset"}
    /\ readings # prev
    /\ \E i \in 1..Len(readings) :
          readings[i].meter_id # last.meter /\ readings[i].is_anomaly

\* C18: a mark run is atomic towards the other sessions.  In every step a
\* session takes, the committed table changes only if the step is the commit
\* of a mark run; that one step leaves every reading the run detected flagged
\* with a score and every other reading as it was.  The detect query, each
\* turn of the loop and a failure before the commit leave the table unchanged,
\* so a run that fails has changed nothing.
C18_AtomicMark ==
    [][\A s \in SessionIds :
          sessions'[s] # sessions[s] =>
             IF sessions[s].pc = "assigning" /\ sessions'[s].pc = "committed"
             THEN \A i \in 1..Len(readings) :
                     IF i \in DetectedIds(sessions[s].anomalies)
                     THEN readings'[i].is_anomaly /\ ~readings'[i].anomaly_score.isNull
                     ELSE readings'[i] = readings[i]
             ELSE readings' = readings]_vars

\* one session has committed a run that detected several readings, all flagged
\* now; the other failed after its loop had assigned every reading it detected,
\* and none of those is flagged
C18_Witness ==
    \E s \in SessionIds, t \in SessionIds :
       /\ sessions[s].pc = "committed"
       /\ Len(sessions[s].anomalies) >= 2
       /\ \A i \in DetectedIds(sessions[s].anomalies) : readings[i].is_anomaly
       /\ sessions[t].pc = "failed"
       /\ sessions[t].error = "exception"
       /\ sessions[t].loaded # <<>>
       /\ Len(sessions[t].loaded) = Len(sessions[t].anomalies)
       /\ \A i \in DetectedIds(sessions[t].anomalies) : ~readings[i].is_anomaly

\* the scores a run computed for reading i
ScoresFor(anomalies, i) == {anomalies[k][2] : k \in {j \in 1..Len(anomalies) : anomalies[j][1] = i}}

\* C19: two mark calls on the same meter, each in its own session, with the
\* same or different methods, interleaved in any way.  Once both have
\* committed, every reading detected by either call is flagged and its
\* anomaly_score is a score one of the two calls computed for it; and in every
\* state no reading is flagged with a null score.
C19_ConcurrentMarks ==
    /\ \A i \in 1..Len(readings) :
          readings[i].is_anomaly => ~readings[i].anomaly_score.isNull
    /\ \A s \in SessionIds : \A t \in SessionIds \ {s} :
          (/\ sessions[s].pc = "committed"
           /\ sessions[t].pc = "committed"
           /\ sessions[s].meter = sessions[t].meter)
          => \A i \in DetectedIds(sessions[s].anomalies) :
                /\ readings[i].is_anomaly
                /\ readings[i].anomaly_score \in
                      (ScoresFor(sessions[s].anomalies, i) \cup ScoresFor(sessions[t].anomalies, i))

\* both calls have committed after running interleaved (each loaded a reading
\* before the other committed); they detected a common reading with different
\* scores, and one call detected a reading the other did not
C19_Witness ==
    \E s \in SessionIds : \E t \in SessionIds \ {s} :
       /\ sessions[s].pc = "committed"
       /\ sessions[t].pc = "committed"
       /\ sessions[s].meter = sessions[t].meter
       /\ sessions[s].method # sessions[t].method
       /\ \E i \in DetectedIds(sessions[s].anomalies) \cap DetectedIds(sessions[t].anomalies) :
             ScoresFor(sessions[s].anomalies, i) # ScoresFor(sessions[t].anomalies, i)
       /\ DetectedIds(sessions[s].anomalies) \ DetectedIds(sessions[t].anomalies) # {}
       /\ \E k \in 1..Len(sessions[s].loaded) : ~sessions[s].loaded[k].is_anomaly
       /\ \E k \in 1..Len(sessions[t].loaded) : ~sessions[t].loaded[k].is_anomaly

\* C20: a status update whose value is not exactly pending, verified or
\* ignored is answered with an error before any query or commit and leaves
\* the table as it was; and after any sequence of requests every reading's
\* anomaly_status is one of pending, verified, ignored.
C20_StatusValues ==
    /\ \A i \in 1..Len(readings) : readings[i].anomaly_status \in valid_statuses
    /\ (last.op = "status" /\ last.arg \notin valid_statuses)
          => /\ last.error = "400_status"
             /\ ~last.queried
             /\ ~last.committed
             /\ readings = prev

\* a flagged reading that had been verified was sent an unknown status and is
\* still verified
C20_Witness ==
    /\ last.op = "status"
    /\ last.arg \notin valid_statuses
    /\ last.id \in 1..Len(readings)
    /\ readings[last.id].is_anomaly
    /\ readings[last.id].anomaly_status = "verified"

\* the readings of meter m whose timestamp lies in [cutoff, nowv]
InWindowClosed(rs, m, cutoff, nowv) ==
    {i \in 1..Len(rs) : rs[i].meter_id = m /\ cutoff <= rs[i].timestamp /\ rs[i].timestamp <= nowv}

\* C21: detect and summary consider only the readings of the meter whose
\* timestamp lies in [cutoff, now]: summary counts exactly those, and no
\* reading timestamped later than the current time is flagged by a mark run
\* or counted by summary.
C21_WindowUpToNow ==
    /\ last.op = "summary" =>
          /\ last.total = Cardinality(InWindowClosed(prev, last.meter,
                                         now - last.days * HOURS_PER_DAY, now))
          /\ last.count = Cardinality({i \in InWindowClosed(prev, last.meter,
                                          now - last.days * HOURS_PER_DAY, now) :
                                          prev[i].is_anomaly})
    /\ (last.op = "mark" /\ last.error = "none") =>
          \A i \in 1..Len(readings) :
             (readings[i].is_anomaly /\ ~prev[i].is_anomaly) => readings[i].timestamp <= now

\* C22: a reading created through the API starts with is_anomaly = false and
\* anomaly_score = null; a request other than mark (creation, reset, summary,
\* status update) flags no reading; and a reading that a mark run turns to
\* is_anomaly = true is one that run's detection returned.
C22_FlaggedOnlyByMark ==
    /\ (last.op = "create" /\ last.error = "none") =>
          /\ last.id = Len(prev) + 1
          /\ ~readings[last.id].is_anomaly
          /\ readings[last.id].anomaly_score = NoScore
    /\ last.op \in {"create", "reset", "summary", "status"} =>
          \A i \in 1..Len(readings) :
             readings[i].is_anomaly => (i <= Len(prev) /\ prev[i].is_anomaly)
    /\ last.op = "mark" =>
          \A i \in 1..Len(readings) :
             (readings[i].is_anomaly /\ ~prev[i].is_anomaly) =>
                /\ last.arg \in Methods
                /\ i \in DetectedIds(DetectDefault(prev, last.meter, last.arg, now))

\* the reading created through the API has just been flagged by a mark run
C22_Witness ==
    /\ last.op = "mark"
    /\ Len(readings) > Seed1 + Seed2
    /\ readings[Len(readings)].is_anomaly
    /\ ~prev[Len(readings)].is_anomaly

\* anomaly_status NULL: the column is a nullable String
NoStatus == "null"

\* C23: reset returns the anomaly fields of each reading it clears to
\* (is_anomaly = false, anomaly_score = null, anomaly_status = null), so a
\* status of verified or ignored set before the reset does not survive it.
C23_ResetClearsStatus ==
    (last.op = "reset" /\ last.error = "none") =>
        \A i \in 1..Len(prev) :
           (prev[i].meter_id = last.meter /\ prev[i].is_anomaly) =>
              /\ ~readings[i].is_anomaly
              /\ readings[i].anomaly_score = NoScore
              /\ readings[i].anomaly_status = NoStatus

\* the moving-average detection with the trailing standard deviation taken
\* over the window_hours values ending at the position, the values of the
\* moving average there
moving_average_same_window(ids, values, window_hours, threshold_multiplier) ==
    LET n == Len(ids)
        p(k) == k + window_hours - 1
    IN moving_average_anomalies(
           ids, values, window_hours, threshold_multiplier,
           Array([k \in 1..(n - window_hours + 1) |->
                     Convolve(values, FDiv(FromInt(1), FromInt(window_hours)),
                              p(k), window_hours)]),
           Array([k \in 1..(n - window_hours + 1) |->
                     np_std(Slice(values, p(k) - window_hours + 1, p(k)))]))

\* C24: in the moving-average algorithm the trailing standard deviation at
\* position i is computed over the window_hours values ending at i, clipped at
\* the start of the series, the same values as the moving average at i: what
\* detect returns is what the algorithm returns with that deviation.
C24_StdOverSameWindow ==
    (last.op = "detect" /\ last.arg = "moving_average") =>
        \A w \in {last.param[1]} :
           \A ids \in {ByTimestamp(prev, Query(prev, last.meter, now - 2 * w))} :
              Len(ids) >= w =>
                 last.detected = moving_average_same_window(ids, np_array(prev, ids), w,
                                                            DEFAULT_MULTIPLIER)

\* C25: a mark and a reset on the same meter, each in its own session and
\* committing once, interleaved in any way, mark writing back only the
\* attributes whose value differs from what it loaded: after both commits
\* every reading has a non-null anomaly_score exactly when is_anomaly is true.
C25_MarkResetScoreIffAnomaly ==
    \A s \in SessionIds : \A t \in SessionIds \ {s} :
       (/\ sessions[s].pc = "committed" /\ sessions[s].op = "mark"
        /\ sessions[t].pc = "committed" /\ sessions[t].op = "reset"
        /\ sessions[s].meter = sessions[t].meter)
       => \A i \in 1..Len(readings) :
             ~readings[i].anomaly_score.isNull <=> readings[i].is_anomaly

\* C26: a status update with a valid status is applied only to a reading that
\* exists and has is_anomaly = true: for a missing reading it is answered 404,
\* for an unflagged one 400 (also when the flag was cleared by a reset), and
\* then no field of any reading changes; a successful update changes only the
\* anomaly_status of that one reading.
C26_StatusOnlyOnFlagged ==
    (last.op = "status" /\ last.arg \in valid_statuses) =>
        IF last.id \notin 1..Len(prev)
        THEN last.error = "404" /\ readings = prev
        ELSE IF ~prev[last.id].is_anomaly
        THEN last.error = "400_not_anomaly" /\ readings = prev
        ELSE /\ last.error = "none"
             /\ readings = [prev EXCEPT ![last.id].anomaly_status = last.arg]

\* a reading that was flagged and verified, then cleared by a reset, is sent a
\* status and the request is refused
C26_Witness ==
    /\ last.op = "status"
    /\ last.arg = "ignored"
    /\ last.error = "400_not_anomaly"
    /\ last.id \in 1..Len(readings)
    /\ readings[last.id].anomaly_status = "verified"
    /\ ~readings[last.id].is_anomaly

\* C27: mark never clears a flag.  After mark(m, method) the flagged readings
\* of the meter are those flagged before together with those the detection
\* returned, and a reading flagged before that the detection did not return
\* keeps its anomaly_score.
C27_MarkKeepsFlags ==
    (last.op = "mark" /\ last.error = "none") =>
        \A d \in {DetectedIds(DetectDefault(prev, last.meter, last.arg, now))} :
           /\ FlaggedOf(readings, last.meter) = FlaggedOf(prev, last.meter) \cup d
           /\ \A i \in FlaggedOf(prev, last.meter) \ d :
                 readings[i].anomaly_score = prev[i].anomaly_score

\* a mark whose detection returns some readings but not all of those flagged
\* before it
C27_Witness ==
    /\ last.op = "mark"
    /\ last.error = "none"
    /\ last.count > 0
    /\ FlaggedOf(prev, last.meter) \
          DetectedIds(DetectDefault(prev, last.meter, last.arg, now)) # {}

\* C28: the result of detect depends only on the meter_id, timestamp and value
\* of the stored readings.  Detect on a store returns the list it returns on
\* the store with every is_anomaly, anomaly_score and anomaly_status as at
\* insertion, so two stores that differ only in those fields give the same
\* (reading_id, score) list; and detect modifies no reading.
C28_DetectIgnoresAnomalyFields ==
    last.op = "detect" =>
        /\ readings = prev
        /\ last.detected = DetectAs(Unmarked(prev), last.meter, last.arg, last.param, now)

\* detect returned readings from a store in which some are flagged, scored
\* and verified
C28_Witness ==
    /\ last.op = "detect"
    /\ last.detected # <<>>
    /\ \E i \in 1..Len(prev) :
          /\ prev[i].meter_id = last.meter
          /\ prev[i].is_anomaly
          /\ ~prev[i].anomaly_score.isNull
          /\ prev[i].anomaly_status = "verified"

\* C29: summary's result satisfies anomaly_count <= total_readings also when
\* other requests commit between its two count queries: a reading creation
\* followed by a mark that flags the new reading, both committed after
\* total_readings was counted and before anomaly_count is counted, cannot make
\* anomaly_count exceed total_readings.
C29_CountWithinTotal ==
    \A s \in SessionIds :
       sessions[s].pc = "returned" => sessions[s].count <= sessions[s].total

\* C30: the response of a successful status update reports as previous_status
\* the anomaly_status the reading had immediately before the update and as
\* new_status the status just stored, for every sequence of status updates on
\* the same reading.
C30_PreviousStatusReported ==
    (last.op = "status" /\ last.error = "none") =>
        /\ last.previous_status = prev[last.id].anomaly_status
        /\ update_anomaly_status(prev, last.id, last.arg).new_status =
              readings[last.id].anomaly_status

====
